---- MODULE Spec2Model ----
(***************************************************************************)
(* A model of the bkd crate's generic spatial index: the BoundingBox       *)
(* region type (spatial.rs), the node arena and its in-memory linker       *)
(* (storage.rs), the two tree algorithms insert_node and spatial_search   *)
(* (search.rs), and the reference tree of bin/bbox.rs that the generic     *)
(* search is said to match.                                                *)
(*                                                                         *)
(* Coordinates are f64 in the source.  The algorithms only compare them,   *)
(* so they are modelled by small naturals: finite, totally ordered values. *)
(* The block KD-tree of tree.rs and BoundingBox::union are explored with   *)
(* NaN coordinates as well.                                                *)
(* A node reference is the arena index (usize, from 0); Option::None is    *)
(* the value None.                                                         *)
(***************************************************************************)
EXTENDS Integers, Sequences, FiniteSets, TLC

VARIABLES nodes, root, inserted, allocated, call, status

vars == <<nodes, root, inserted, allocated, call, status>>

(***************************************************************************)
(* Bounds of the model.                                                    *)
(***************************************************************************)
\* largest coordinate of a region or query in the tree specification
MaxCoord == 2
\* arena capacity explored by the tree specification
MaxNodes == 4
\* largest coordinate in the arena (free call) specification
MaxArenaCoord == 1
\* arena capacity explored by the arena specification
MaxArenaNodes == 2
\* largest starting depth handed to insert_node / spatial_search
MaxDepth == 4
\* largest coordinate of a box handed to the BoundingBox methods
MaxBoxCoord == 2
\* largest dimension index handed to get_dimension / with_dimension
MaxDim == 5
\* arena capacity explored by the re-insertion specification
MaxCycleNodes == 3
\* largest coordinate in the re-insertion specification
MaxCycleCoord == 1
\* number of insertions of an already inserted node that are explored
MaxReinserts == 2
\* largest finite coordinate of a point handed to KDTree::insert
MaxBlockCoord == 1
\* largest finite coordinate of a box handed to BoundingBox::union
MaxUnionCoord == 1
\* number of KDTree::insert calls that are explored
MaxBlockPoints == 6

None == -1

(***************************************************************************)
(* f64.  The points of the block KD-tree and the boxes BoundingBox::union  *)
(* is applied to range over the finite coordinates and the one value of    *)
(* f64 that is not ordered, NaN: every comparison with NaN is false,       *)
(* partial_cmp with NaN is None, and f64::min / f64::max return the other  *)
(* argument when one is NaN.                                               *)
(***************************************************************************)
NAN == -3

\* a < b
f64_lt(a, b) == a # NAN /\ b # NAN /\ a < b

\* a <= b
f64_le(a, b) == a # NAN /\ b # NAN /\ a <= b

\* a >= b
f64_ge(a, b) == a # NAN /\ b # NAN /\ a >= b

\* a == b (PartialEq)
f64_eq(a, b) == a # NAN /\ b # NAN /\ a = b

\* a.partial_cmp(&b).unwrap() panics
partial_cmp_is_none(a, b) == a = NAN \/ b = NAN

\* a.min(b)
f64_min(a, b) == IF a = NAN THEN b ELSE IF b = NAN THEN a ELSE IF a < b THEN a ELSE b

\* a.max(b)
f64_max(a, b) == IF a = NAN THEN b ELSE IF b = NAN THEN a ELSE IF a > b THEN a ELSE b

(***************************************************************************)
(* spatial.rs                                                              *)
(***************************************************************************)
BoundingBox(x0, y0, x1, y1) == [xmin |-> x0, ymin |-> y0, xmax |-> x1, ymax |-> y1]

\* the value standing for the panic of an invalid dimension index
PANIC == -2

dimensions(p) == 4

\* variant: an index past the last dimension wraps around
get_dimension_wrapping(p, dim) ==
    CASE dim % 4 = 0 -> p.xmin
      [] dim % 4 = 1 -> p.ymin
      [] dim % 4 = 2 -> p.xmax
      [] OTHER -> p.ymax

get_dimension(p, dim) ==
    CASE dim = 0 -> p.xmin
      [] dim = 1 -> p.ymin
      [] dim = 2 -> p.xmax
      [] dim = 3 -> p.ymax
      [] OTHER -> PANIC

\* BoundingBox::with_dimension: the new box, or the panic of an invalid index
with_dimension(self, dim, value) ==
    CASE dim = 0 -> [panicked |-> FALSE,
                     box |-> BoundingBox(value, self.ymin, self.xmax, self.ymax)]
      [] dim = 1 -> [panicked |-> FALSE,
                     box |-> BoundingBox(self.xmin, value, self.xmax, self.ymax)]
      [] dim = 2 -> [panicked |-> FALSE,
                     box |-> BoundingBox(self.xmin, self.ymin, value, self.ymax)]
      [] dim = 3 -> [panicked |-> FALSE,
                     box |-> BoundingBox(self.xmin, self.ymin, self.xmax, value)]
      [] OTHER -> [panicked |-> TRUE, box |-> self]

\* variant: the union keeps the smaller xmax
union_with_smaller_xmax(self, other) ==
    BoundingBox(f64_min(self.xmin, other.xmin), f64_min(self.ymin, other.ymin),
                f64_min(self.xmax, other.xmax), f64_max(self.ymax, other.ymax))

union(self, other) ==
    BoundingBox(f64_min(self.xmin, other.xmin), f64_min(self.ymin, other.ymin),
                f64_max(self.xmax, other.xmax), f64_max(self.ymax, other.ymax))

\* derive(PartialEq): a == b
BoundingBox_eq(a, b) ==
    /\ f64_eq(a.xmin, b.xmin)
    /\ f64_eq(a.ymin, b.ymin)
    /\ f64_eq(a.xmax, b.xmax)
    /\ f64_eq(a.ymax, b.ymax)

\* variant: the y axis is left out of the containment test
is_within_x_only(self, query) ==
    /\ self.xmin >= query.xmin
    /\ self.xmax <= query.xmax

is_within(self, query) ==
    /\ f64_ge(self.xmin, query.xmin)
    /\ f64_le(self.xmax, query.xmax)
    /\ f64_ge(self.ymin, query.ymin)
    /\ f64_le(self.ymax, query.ymax)

\* variant: the y axis is left out of the overlap test
overlaps_x_only(self, query) ==
    ~(\/ self.xmax < query.xmin
      \/ self.xmin > query.xmax)

\* variant: boxes that only touch are taken to be disjoint
overlaps_excluding_touch(self, query) ==
    ~(\/ self.xmax <= query.xmin
      \/ self.xmin >= query.xmax
      \/ self.ymax <= query.ymin
      \/ self.ymin >= query.ymax)

overlaps(self, query) ==
    ~(\/ self.xmax < query.xmin
      \/ self.xmin > query.xmax
      \/ self.ymax < query.ymin
      \/ self.ymin > query.ymax)

(***************************************************************************)
(* storage.rs: Node, NodeArena and InMemoryLinker.  The arena is the       *)
(* sequence ns of nodes; reference r is the node ns[r + 1].                *)
(***************************************************************************)
Node(p, t) == [point |-> p, data |-> t, left |-> None, right |-> None]

len(ns) == Len(ns)

is_empty(ns) == Len(ns) = 0

\* the bounds check of Vec indexing: a failed check panics
valid_index(ns, index) == index \in 0..(Len(ns) - 1)

get(ns, index) == ns[index + 1]

\* variant: the index is read after the push
allocate_index_after_push(ns, p, t) ==
    [nodes |-> Append(ns, Node(p, t)), index |-> len(ns) + 1]

\* variant: a non-empty arena reuses its last slot for the new node
allocate_reusing_last(ns, p, t) ==
    IF is_empty(ns)
    THEN [nodes |-> Append(ns, Node(p, t)), index |-> len(ns)]
    ELSE [nodes |-> [ns EXCEPT ![len(ns)] = Node(p, t)], index |-> len(ns) - 1]

\* NodeArena::allocate: the new arena and the returned index
allocate(ns, p, t) == [nodes |-> Append(ns, Node(p, t)), index |-> len(ns)]

\* variant: the child node is copied into the parent's slot before linking
link_left_copying_child(ns, parent, child) ==
    [ns EXCEPT ![parent + 1] = [get(ns, child) EXCEPT !.left = child]]

\* variant: the child also gets a reference back to its parent
link_left_with_back_reference(ns, parent, child) ==
    [[ns EXCEPT ![parent + 1] = [@ EXCEPT !.left = child]]
        EXCEPT ![child + 1] = [@ EXCEPT !.right = parent]]

link_left(ns, parent, child) ==
    [ns EXCEPT ![parent + 1] = [@ EXCEPT !.left = child]]

\* variant: the right link is written to the left field
link_right_writing_left(ns, parent, child) ==
    [ns EXCEPT ![parent + 1] = [@ EXCEPT !.left = child]]

\* variant: the right link is not written
link_right_dropping(ns, parent, child) == ns

\* variant: the child is written to both slots of the parent
link_right_and_left(ns, parent, child) ==
    [ns EXCEPT ![parent + 1] = [@ EXCEPT !.right = child, !.left = child]]

link_right(ns, parent, child) ==
    [ns EXCEPT ![parent + 1] = [@ EXCEPT !.right = child]]

get_left(ns, node) == get(ns, node).left

get_right(ns, node) == get(ns, node).right

get_point(ns, node) == get(ns, node).point

get_data(ns, node) == get(ns, node).data

(***************************************************************************)
(* search.rs: insert_node.  The recursion of the source has no bound: on   *)
(* links that contain a cycle it can descend forever (stack exhaustion).   *)
(* stack is the set of <<node, depth mod 4>> frames of the calls in        *)
(* progress; the descent is a function of that pair, so a call that        *)
(* repeats a frame never returns (returned = FALSE).  steps counts the     *)
(* calls that compared the new node with a current root.                   *)
(***************************************************************************)
\* variant: ties descend left
goes_left_on_ties(new_coord, current_coord) == new_coord <= current_coord

\* variant: the comparison is turned around
goes_left_reversed(new_coord, current_coord) == new_coord > current_coord

\* the comparison of line 28: the new node descends left
goes_left(new_coord, current_coord) == new_coord < current_coord

\* variant: the node that becomes the root has its child references reset
empty_tree_insert_resetting(ns, new_node) ==
    [nodes |-> link_right(link_left(ns, new_node, None), new_node, None),
     ret |-> new_node, returned |-> TRUE, panicked |-> FALSE,
     steps |-> 0]

\* lines 15-17: no root exists, the new node becomes the root
empty_tree_insert(ns, new_node) ==
    [nodes |-> ns, ret |-> new_node, returned |-> TRUE, panicked |-> FALSE,
     steps |-> 0]

\* a call that never returns: it recurses forever, or it panics
insert_diverges(ns) ==
    [nodes |-> ns, ret |-> None, returned |-> FALSE, panicked |-> FALSE,
     steps |-> 0]

insert_panics(ns) ==
    [nodes |-> ns, ret |-> None, returned |-> FALSE, panicked |-> TRUE,
     steps |-> 0]

\* variant: each call returns what it reached, the result of the recursive
\* call or the node it linked, instead of its own current_root
RECURSIVE insert_node_returning_leaf(_, _, _, _, _)
insert_node_returning_leaf(ns, root_opt, new_node, depth, stack) ==
    IF root_opt = None
    THEN empty_tree_insert(ns, new_node)
    ELSE
      LET current_root == root_opt
          current_point == get_point(ns, current_root)
          new_point == get_point(ns, new_node)
          dimension == depth % dimensions(new_point)
          new_coord == get_dimension(new_point, dimension)
          current_coord == get_dimension(current_point, dimension)
          frame == <<current_root, dimension>>
          child == IF goes_left(new_coord, current_coord)
                   THEN get_left(ns, current_root)
                   ELSE get_right(ns, current_root)
      IN  IF ~valid_index(ns, current_root) \/ ~valid_index(ns, new_node)
          THEN insert_panics(ns)
          ELSE IF new_coord = PANIC \/ current_coord = PANIC
          THEN insert_panics(ns)
          ELSE IF frame \in stack
          THEN insert_diverges(ns)
          ELSE IF child # None
          THEN insert_node_returning_leaf(ns, child, new_node, depth + 1,
                                          stack \cup {frame})
          ELSE IF goes_left(new_coord, current_coord)
          THEN [nodes |-> link_left(ns, current_root, new_node),
                ret |-> new_node, returned |-> TRUE, panicked |-> FALSE,
                steps |-> 1]
          ELSE [nodes |-> link_right(ns, current_root, new_node),
                ret |-> new_node, returned |-> TRUE, panicked |-> FALSE,
                steps |-> 1]

\* variant: no descent, the new node is linked to the root at once, over
\* whatever child the root had on that side
insert_node_overwriting(ns, root_opt, new_node, depth, stack) ==
    IF root_opt = None
    THEN empty_tree_insert(ns, new_node)
    ELSE
      LET dimension == depth % dimensions(get_point(ns, new_node))
          new_coord == get_dimension(get_point(ns, new_node), dimension)
          current_coord == get_dimension(get_point(ns, root_opt), dimension)
      IN  IF goes_left(new_coord, current_coord)
          THEN [nodes |-> link_left(ns, root_opt, new_node),
                ret |-> root_opt, returned |-> TRUE, panicked |-> FALSE,
                steps |-> 1]
          ELSE [nodes |-> link_right(ns, root_opt, new_node),
                ret |-> root_opt, returned |-> TRUE, panicked |-> FALSE,
                steps |-> 1]

\* variant: the descent stops, linking nothing, when it meets the new node
RECURSIVE insert_node_checking_membership(_, _, _, _, _)
insert_node_checking_membership(ns, root_opt, new_node, depth, stack) ==
    IF root_opt = None
    THEN empty_tree_insert(ns, new_node)
    ELSE
      LET current_root == root_opt
          current_point == get_point(ns, current_root)
          new_point == get_point(ns, new_node)
          dimension == depth % dimensions(new_point)
          new_coord == get_dimension(new_point, dimension)
          current_coord == get_dimension(current_point, dimension)
          child == IF goes_left(new_coord, current_coord)
                   THEN get_left(ns, current_root)
                   ELSE get_right(ns, current_root)
      IN  IF current_root = new_node
          THEN [nodes |-> ns, ret |-> current_root,
                returned |-> TRUE, panicked |-> FALSE, steps |-> 1]
          ELSE IF child # None
          THEN LET sub == insert_node_checking_membership(
                              ns, child, new_node, depth + 1, stack)
               IN  [sub EXCEPT !.ret = current_root, !.steps = sub.steps + 1]
          ELSE IF goes_left(new_coord, current_coord)
          THEN [nodes |-> link_left(ns, current_root, new_node),
                ret |-> current_root, returned |-> TRUE, panicked |-> FALSE,
                steps |-> 1]
          ELSE [nodes |-> link_right(ns, current_root, new_node),
                ret |-> current_root, returned |-> TRUE, panicked |-> FALSE,
                steps |-> 1]

RECURSIVE insert_node(_, _, _, _, _)
insert_node(ns, root_opt, new_node, depth, stack) ==
    IF root_opt = None
    THEN empty_tree_insert(ns, new_node)
    ELSE
      LET current_root == root_opt
          current_point == get_point(ns, current_root)
          new_point == get_point(ns, new_node)
          dimension == depth % dimensions(new_point)
          new_coord == get_dimension(new_point, dimension)
          current_coord == get_dimension(current_point, dimension)
          frame == <<current_root, dimension>>
          child == IF goes_left(new_coord, current_coord)
                   THEN get_left(ns, current_root)
                   ELSE get_right(ns, current_root)
      IN  IF ~valid_index(ns, current_root) \/ ~valid_index(ns, new_node)
          THEN insert_panics(ns)
          ELSE IF new_coord = PANIC \/ current_coord = PANIC
          THEN insert_panics(ns)
          ELSE IF frame \in stack
          THEN insert_diverges(ns)
          ELSE IF child # None
          THEN LET sub == insert_node(ns, child, new_node, depth + 1,
                                      stack \cup {frame})
               IN  [nodes |-> sub.nodes,
                    ret |-> IF sub.returned THEN current_root ELSE None,
                    returned |-> sub.returned, panicked |-> sub.panicked,
                    steps |-> sub.steps + 1]
          ELSE IF goes_left(new_coord, current_coord)
          THEN [nodes |-> link_left(ns, current_root, new_node),
                ret |-> current_root, returned |-> TRUE, panicked |-> FALSE,
                steps |-> 1]
          ELSE [nodes |-> link_right(ns, current_root, new_node),
                ret |-> current_root, returned |-> TRUE, panicked |-> FALSE,
                steps |-> 1]

(***************************************************************************)
(* search.rs: spatial_search and spatial_search_recursive.  results is the *)
(* Vec the recursion pushes to; stack as for insert_node.  Besides the     *)
(* results a call reports the nodes it visited, in the order of the        *)
(* visits, and whether it returned, recursed forever or panicked.          *)
(***************************************************************************)
search_returns(results, visited) ==
    [results |-> results, visited |-> visited,
     returned |-> TRUE, panicked |-> FALSE]

search_diverges(results) ==
    [results |-> results, visited |-> <<>>,
     returned |-> FALSE, panicked |-> FALSE]

search_panics(results) ==
    [results |-> results, visited |-> <<>>,
     returned |-> FALSE, panicked |-> TRUE]

\* variant: every visited node is pushed
should_include_visited(node_point, query) == TRUE

\* the test of line 82: the visited node is pushed to the results
\* variant: a node that only overlaps the query is not collected
should_include_within_only(node_point, query) == is_within(node_point, query)

should_include(node_point, query) ==
    is_within(node_point, query) \/ overlaps(node_point, query)

\* lines 92-101: the query bounds compared with the split value
query_low(query, dimension) == get_dimension(query, dimension)

\* variant: the paired coordinate dimension + 2 is read on every dimension
query_high_always_paired(query, dimension) ==
    get_dimension(query, dimension + 2)

query_high(query, dimension) ==
    IF dimension < 2
    THEN get_dimension(query, dimension + 2)
    ELSE query_low(query, dimension)

\* the pruning tests of lines 106 and 113
\* variant: a query bound equal to the split value prunes the left subtree
visit_left_strict(query_min, split_value) == query_min < split_value

visit_left(query_min, split_value) == query_min <= split_value

visit_right(query_max, split_value) == query_max >= split_value

RECURSIVE spatial_search_recursive(_, _, _, _, _, _)
spatial_search_recursive(ns, node, query, depth, results, stack) ==
    LET node_point == get_point(ns, node)
        pushed == IF should_include(node_point, query)
                  THEN Append(results, node)
                  ELSE results
        dimension == depth % dimensions(query)
        split_value == get_dimension(node_point, dimension)
        query_min == query_low(query, dimension)
        query_max == query_high(query, dimension)
        frame == <<node, dimension>>
        left_child == get_left(ns, node)
        right_child == get_right(ns, node)
        after_left ==
            IF left_child # None /\ visit_left(query_min, split_value)
            THEN spatial_search_recursive(ns, left_child, query, depth + 1,
                                          pushed, stack \cup {frame})
            ELSE search_returns(pushed, <<>>)
        after_right ==
            IF right_child # None /\ visit_right(query_max, split_value)
            THEN spatial_search_recursive(ns, right_child, query, depth + 1,
                                          after_left.results, stack \cup {frame})
            ELSE search_returns(after_left.results, <<>>)
    IN  IF ~valid_index(ns, node)
        THEN search_panics(results)
        ELSE IF frame \in stack
        THEN search_diverges(results)
        ELSE IF PANIC \in {split_value, query_min, query_max}
        THEN search_panics(pushed)
        ELSE IF ~after_left.returned
        THEN after_left
        ELSE IF ~after_right.returned
        THEN after_right
        ELSE search_returns(after_right.results,
                            <<node>> \o after_left.visited \o after_right.visited)

\* variant: without a root the search starts at the first node of the arena
spatial_search_defaulting_root(ns, root_opt, query, depth) ==
    IF root_opt # None
    THEN spatial_search_recursive(ns, root_opt, query, depth, <<>>, {})
    ELSE IF len(ns) > 0
    THEN spatial_search_recursive(ns, 0, query, depth, <<>>, {})
    ELSE search_returns(<<>>, <<>>)

\* variant: the results come back last visited first
spatial_search_reversed(ns, root_opt, query, depth) ==
    IF root_opt # None
    THEN LET res == spatial_search_recursive(ns, root_opt, query, depth, <<>>, {})
         IN  [res EXCEPT !.results =
                  [i \in 1..Len(res.results) |->
                       res.results[Len(res.results) + 1 - i]]]
    ELSE search_returns(<<>>, <<>>)

spatial_search(ns, root_opt, query, depth) ==
    IF root_opt # None
    THEN spatial_search_recursive(ns, root_opt, query, depth, <<>>, {})
    ELSE search_returns(<<>>, <<>>)

(***************************************************************************)
(* bin/bbox.rs: the reference tree BoundingBoxKDTree.  Its nodes own their *)
(* children (Option<Box<Node>>), so a tree is the function that maps the   *)
(* path of each node, the sequence of "left" / "right" steps from the      *)
(* root, to the node's box and page id; the empty tree has no path.        *)
(***************************************************************************)
bbox_get_dimension(self, dim) ==
    CASE dim = 0 -> self.xmin
      [] dim = 1 -> self.ymin
      [] dim = 2 -> self.xmax
      [] dim = 3 -> self.ymax
      [] OTHER -> PANIC

bbox_is_within(self, query) ==
    /\ self.xmin >= query.xmin /\ self.xmax <= query.xmax
    /\ self.ymin >= query.ymin /\ self.ymax <= query.ymax

bbox_overlaps(self, query) ==
    ~(\/ self.xmax < query.xmin \/ self.xmin > query.xmax
      \/ self.ymax < query.ymin \/ self.ymin > query.ymax)

bbox_Node_new(enclosing_box, page_id) ==
    [enclosing_box |-> enclosing_box, page_id |-> page_id]

bbox_new == <<>>

bbox_is_empty(tree) == DOMAIN tree = {}

bbox_has(tree, path) == path \in DOMAIN tree

RECURSIVE bbox_insert_recursive(_, _, _, _)
bbox_insert_recursive(tree, depth, path, new_node) ==
    LET dimension == depth % 4
        current_value == bbox_get_dimension(tree[path].enclosing_box, dimension)
        new_value == bbox_get_dimension(new_node.enclosing_box, dimension)
        left == Append(path, "left")
        right == Append(path, "right")
    IN  IF new_value < current_value
        THEN IF bbox_has(tree, left)
             THEN bbox_insert_recursive(tree, depth + 1, left, new_node)
             ELSE (left :> new_node) @@ tree
        ELSE IF bbox_has(tree, right)
             THEN bbox_insert_recursive(tree, depth + 1, right, new_node)
             ELSE (right :> new_node) @@ tree

bbox_insert(tree, enclosing_box, page_id) ==
    LET new_node == bbox_Node_new(enclosing_box, page_id)
    IN  IF bbox_is_empty(tree)
        THEN (<<>> :> new_node)
        ELSE bbox_insert_recursive(tree, 0, <<>>, new_node)

RECURSIVE bbox_query_recursive(_, _, _, _, _)
bbox_query_recursive(tree, depth, path, query_box, results) ==
    LET node == tree[path]
        pushed == IF bbox_is_within(node.enclosing_box, query_box)
                  THEN Append(results, node.page_id)
                  ELSE IF bbox_overlaps(node.enclosing_box, query_box)
                  THEN Append(results, node.page_id)
                  ELSE results
        dimension == depth % 4
        split_value == bbox_get_dimension(node.enclosing_box, dimension)
        query_min == CASE dimension = 0 -> query_box.xmin
                       [] dimension = 1 -> query_box.ymin
                       [] dimension = 2 -> query_box.xmax
                       [] dimension = 3 -> query_box.ymax
        query_max == CASE dimension = 0 -> query_box.xmax
                       [] dimension = 1 -> query_box.ymax
                       [] dimension = 2 -> query_box.xmax
                       [] dimension = 3 -> query_box.ymax
        left == Append(path, "left")
        right == Append(path, "right")
        after_left ==
            IF bbox_has(tree, left) /\ query_min <= split_value
            THEN bbox_query_recursive(tree, depth + 1, left, query_box, pushed)
            ELSE pushed
    IN  IF bbox_has(tree, right) /\ query_max >= split_value
        THEN bbox_query_recursive(tree, depth + 1, right, query_box, after_left)
        ELSE after_left

bbox_query_within(tree, query_box) ==
    IF ~bbox_is_empty(tree)
    THEN bbox_query_recursive(tree, 0, <<>>, query_box, <<>>)
    ELSE <<>>

(***************************************************************************)
(* Inputs.                                                                 *)
(***************************************************************************)
\* the well-formed square boxes (a, a, b, b) with 0 <= a <= b <= m
Boxes(m) == UNION {{BoundingBox(a, a, b, b) : b \in a..m} : a \in 0..m}

\* the payload the callers give the node they allocate at index i: an id
FirstId == 101

payload_of(i) == FirstId + i

Depths == 0..MaxDepth

Refs == 0..(len(nodes) - 1)

OptRefs == Refs \cup {None}

NoBox == BoundingBox(0, 0, 0, 0)

Range(s) == {s[i] : i \in 1..Len(s)}

(***************************************************************************)
(* State: the arena (nodes), the root reference the tree-building caller   *)
(* retains (root), the references that caller has inserted, in order       *)
(* (inserted), the references allocate has returned, in order             *)
(* (allocated), the last call with its arguments and result (call), and    *)
(* whether the program is still running, or a call recursed forever or     *)
(* panicked (status).                                                      *)
(***************************************************************************)
NoCall ==
    [op |-> "none", root |-> None, node |-> None, child |-> None,
     region |-> NoBox, other |-> NoBox, dim |-> 0, value |-> 0,
     data |-> 0, ret |-> None, box |-> NoBox, holds |-> FALSE,
     results |-> <<>>, visited |-> <<>>, steps |-> 0]

Init ==
    /\ nodes = <<>>
    /\ root = None
    /\ inserted = <<>>
    /\ allocated = <<>>
    /\ call = NoCall
    /\ status = "running"

\* arena.allocate(p, t)
Allocate(p, t) ==
    /\ status = "running"
    /\ LET a == allocate(nodes, p, t)
       IN  /\ nodes' = a.nodes
           /\ call' = [NoCall EXCEPT !.op = "allocate", !.region = p,
                                     !.data = t, !.ret = a.index]
           /\ allocated' = Append(allocated, a.index)
    /\ UNCHANGED status

\* linker.link_left(parent, child)
LinkLeft(parent, child) ==
    /\ status = "running"
    /\ nodes' = link_left(nodes, parent, child)
    /\ call' = [NoCall EXCEPT !.op = "link_left", !.node = parent, !.child = child]
    /\ UNCHANGED <<allocated, status>>

\* linker.link_right(parent, child)
LinkRight(parent, child) ==
    /\ status = "running"
    /\ nodes' = link_right(nodes, parent, child)
    /\ call' = [NoCall EXCEPT !.op = "link_right", !.node = parent, !.child = child]
    /\ UNCHANGED <<allocated, status>>

\* insert_node(&mut linker, r, x, d)
InsertNode(r, x, d) ==
    /\ status = "running"
    /\ LET res == insert_node(nodes, r, x, d, {})
       IN  /\ nodes' = res.nodes
           /\ call' = [NoCall EXCEPT !.op = "insert_node", !.root = r, !.node = x,
                                     !.ret = res.ret, !.steps = res.steps]
           /\ status' = IF res.returned THEN "running"
                         ELSE IF res.panicked THEN "panicked" ELSE "diverged"
    /\ UNCHANGED allocated

\* variant: a search that detaches the left subtree of the node it starts at
SpatialSearchDetaching(r, q, d) ==
    /\ status = "running"
    /\ LET res == spatial_search(nodes, r, q, d)
       IN  /\ call' = [NoCall EXCEPT !.op = "spatial_search", !.root = r,
                                     !.region = q, !.results = res.results,
                                     !.visited = res.visited]
           /\ status' = IF res.returned THEN "running"
                         ELSE IF res.panicked THEN "panicked" ELSE "diverged"
    /\ nodes' = IF r = None THEN nodes ELSE link_left(nodes, r, None)
    /\ UNCHANGED allocated

\* spatial_search(&linker, r, &q, d)
SpatialSearch(r, q, d) ==
    /\ status = "running"
    /\ LET res == spatial_search(nodes, r, q, d)
       IN  /\ call' = [NoCall EXCEPT !.op = "spatial_search", !.root = r,
                                     !.region = q, !.results = res.results,
                                     !.visited = res.visited]
           /\ status' = IF res.returned THEN "running"
                         ELSE IF res.panicked THEN "panicked" ELSE "diverged"
    /\ UNCHANGED <<nodes, allocated>>

(***************************************************************************)
(* Spec: every operation of the library called with any arguments: any     *)
(* allocated references, any root argument, any starting depth.            *)
(***************************************************************************)
ArenaAllocate ==
    /\ len(nodes) < MaxArenaNodes
    /\ \E p \in Boxes(MaxArenaCoord) : Allocate(p, payload_of(len(nodes)))
    /\ UNCHANGED <<root, inserted>>

ArenaLinkLeft ==
    /\ \E parent \in Refs, child \in Refs : LinkLeft(parent, child)
    /\ UNCHANGED <<root, inserted>>

ArenaLinkRight ==
    /\ \E parent \in Refs, child \in Refs : LinkRight(parent, child)
    /\ UNCHANGED <<root, inserted>>

ArenaInsert ==
    /\ \E r \in OptRefs, x \in Refs, d \in Depths : InsertNode(r, x, d)
    /\ UNCHANGED <<root, inserted>>

ArenaSearch ==
    /\ \E r \in OptRefs, q \in Boxes(MaxArenaCoord), d \in Depths :
           SpatialSearch(r, q, d)
    /\ UNCHANGED <<root, inserted>>

Next ==
    \/ ArenaAllocate
    \/ ArenaLinkLeft
    \/ ArenaLinkRight
    \/ ArenaInsert
    \/ ArenaSearch

Spec == Init /\ [][Next]_vars

(***************************************************************************)
(* SpecTree: the documented use.  The caller allocates boxes, inserts each *)
(* allocated node once with insert_node(root, x, 0), in allocation order   *)
(* as the callers of the repository do, keeps the returned root, and       *)
(* searches from that root at depth 0.                                     *)
(***************************************************************************)
TreeAllocate ==
    /\ len(nodes) < MaxNodes
    /\ \E p \in Boxes(MaxCoord) : Allocate(p, payload_of(len(nodes)))
    /\ UNCHANGED <<root, inserted>>

TreeInsert ==
    /\ Len(inserted) < len(nodes)
    /\ LET x == Len(inserted)
       IN  /\ InsertNode(root, x, 0)
           /\ root' = call'.ret
           /\ inserted' = Append(inserted, x)

TreeSearch ==
    /\ \E q \in Boxes(MaxCoord) : SpatialSearch(root, q, 0)
    /\ UNCHANGED <<root, inserted>>

NextTree ==
    \/ TreeAllocate
    \/ TreeInsert
    \/ TreeSearch

SpecTree == Init /\ [][NextTree]_vars

(***************************************************************************)
(* SpecDemo: the demo of main() in bin/kd-tree.rs.  The four locations are *)
(* allocated, inserted in allocation order from an empty tree and          *)
(* searched with the demo's queries.                                       *)
(***************************************************************************)
Store == BoundingBox(5, 5, 7, 7)

House == BoundingBox(2, 2, 3, 3)

Park == BoundingBox(8, 1, 10, 2)

School == BoundingBox(1, 8, 2, 9)

downtown_query == BoundingBox(0, 0, 6, 6)

eastside_query == BoundingBox(7, 0, 12, 5)

DemoBoxes == {Store, House, Park, School}

DemoQueries == {downtown_query, eastside_query} \cup DemoBoxes

DemoAllocate ==
    /\ \E p \in DemoBoxes :
           /\ \A r \in Refs : get_point(nodes, r) # p
           /\ Allocate(p, payload_of(len(nodes)))
    /\ UNCHANGED <<root, inserted>>

DemoSearch ==
    /\ \E q \in DemoQueries : SpatialSearch(root, q, 0)
    /\ UNCHANGED <<root, inserted>>

NextDemo ==
    \/ DemoAllocate
    \/ TreeInsert
    \/ DemoSearch

SpecDemo == Init /\ [][NextDemo]_vars

(***************************************************************************)
(* SpecReinsert: the use of SpecTree by a caller that may also hand to     *)
(* insert_node a node it has inserted before.  inserted lists every        *)
(* insertion, so a node inserted again occurs in it more than once.  The   *)
(* caller keeps its root when a call does not return.                      *)
(***************************************************************************)
Reinserts == Len(inserted) - Cardinality(Range(inserted))

CycleAllocate ==
    /\ len(nodes) < MaxCycleNodes
    /\ \E p \in Boxes(MaxCycleCoord) : Allocate(p, payload_of(len(nodes)))
    /\ UNCHANGED <<root, inserted>>

CycleInsert(x) ==
    /\ InsertNode(root, x, 0)
    /\ root' = IF status' = "running" THEN call'.ret ELSE root
    /\ inserted' = Append(inserted, x)

CycleInsertFresh ==
    /\ Cardinality(Range(inserted)) < len(nodes)
    /\ CycleInsert(Cardinality(Range(inserted)))

CycleInsertAgain ==
    /\ Reinserts < MaxReinserts
    /\ \E x \in Range(inserted) : CycleInsert(x)

CycleSearch ==
    /\ \E q \in Boxes(MaxCycleCoord) : SpatialSearch(root, q, 0)
    /\ UNCHANGED <<root, inserted>>

NextReinsert ==
    \/ CycleAllocate
    \/ CycleInsertFresh
    \/ CycleInsertAgain
    \/ CycleSearch

SpecReinsert == Init /\ [][NextReinsert]_vars

(***************************************************************************)
(* The BoundingBox methods on their own: two boxes (region, the receiver,  *)
(* and other, the argument) are drawn from every combination of            *)
(* coordinates, well-formed (min <= max) or not, and one method is applied *)
(* to them.  The call record keeps the arguments the method takes; a       *)
(* returned number is call.ret, a returned box call.box, a returned bool   *)
(* call.holds.                                                             *)
(***************************************************************************)
AllBoxes(m) ==
    {BoundingBox(x0, y0, x1, y1) : x0 \in 0..m, y0 \in 0..m, x1 \in 0..m, y1 \in 0..m}

InitBox ==
    /\ nodes = <<>>
    /\ root = None
    /\ inserted = <<>>
    /\ allocated = <<>>
    /\ status = "running"
    /\ \E a \in AllBoxes(MaxBoxCoord), q \in AllBoxes(MaxBoxCoord) :
           call = [NoCall EXCEPT !.op = "input", !.region = a, !.other = q]

Applies == call.op = "input" /\ status = "running"

GetDimension ==
    /\ Applies
    /\ \E d \in 0..MaxDim :
           LET r == get_dimension(call.region, d)
           IN  /\ call' = [NoCall EXCEPT !.op = "get_dimension",
                                         !.region = call.region, !.dim = d,
                                         !.ret = r]
               /\ status' = IF r = PANIC THEN "panicked" ELSE "running"
    /\ UNCHANGED <<nodes, root, inserted, allocated>>

Dimensions ==
    /\ Applies
    /\ call' = [NoCall EXCEPT !.op = "dimensions", !.region = call.region,
                              !.ret = dimensions(call.region)]
    /\ UNCHANGED <<nodes, root, inserted, allocated, status>>

WithDimension ==
    /\ Applies
    /\ \E d \in 0..MaxDim, v \in 0..MaxBoxCoord :
           LET r == with_dimension(call.region, d, v)
           IN  /\ call' = [NoCall EXCEPT !.op = "with_dimension",
                                         !.region = call.region, !.dim = d,
                                         !.value = v, !.box = r.box]
               /\ status' = IF r.panicked THEN "panicked" ELSE "running"
    /\ UNCHANGED <<nodes, root, inserted, allocated>>

IsWithin ==
    /\ Applies
    /\ call' = [call EXCEPT !.op = "is_within",
                            !.holds = is_within(call.region, call.other)]
    /\ UNCHANGED <<nodes, root, inserted, allocated, status>>

Overlaps ==
    /\ Applies
    /\ call' = [call EXCEPT !.op = "overlaps",
                            !.holds = overlaps(call.region, call.other)]
    /\ UNCHANGED <<nodes, root, inserted, allocated, status>>

\* the inclusion test of the search, applied to region as the node's box
\* and other as the query
ShouldInclude ==
    /\ Applies
    /\ call' = [call EXCEPT !.op = "should_include",
                            !.holds = should_include(call.region, call.other)]
    /\ UNCHANGED <<nodes, root, inserted, allocated, status>>

NextBox ==
    \/ GetDimension
    \/ Dimensions
    \/ WithDimension
    \/ IsWithin
    \/ Overlaps
    \/ ShouldInclude

SpecBox == InitBox /\ [][NextBox]_vars

(***************************************************************************)
(* Vocabulary of the properties.                                           *)
(***************************************************************************)
Children(ns, r) == {get_left(ns, r), get_right(ns, r)} \ {None}

\* the nodes reachable from the set S through left / right references
RECURSIVE Closure(_, _)
Closure(ns, S) ==
    LET T == S \cup UNION {Children(ns, r) : r \in S}
    IN  IF T = S THEN S ELSE Closure(ns, T)

\* the nodes of the subtree hanging from the optional reference c
Subtree(ns, c) == IF c = None THEN {} ELSE Closure(ns, {c})

\* number of occurrences of x in the sequence s
Count(s, x) == Cardinality({i \in 1..Len(s) : s[i] = x})

Matches(ns, x, q) ==
    is_within(get_point(ns, x), q) \/ overlaps(get_point(ns, x), q)

Inserted == Range(inserted)

Searched == call.op = "spatial_search" /\ status = "running"

(***************************************************************************)
(* C1.  Search completeness for a containing query: on a tree built by     *)
(* inserting each allocated node once from depth 0, a search from the root *)
(* whose query contains every inserted region (every region is_within the  *)
(* query) returns every inserted node reference exactly once.              *)
(***************************************************************************)
C1_ContainingQueryReturnsAll ==
    (/\ Searched
     /\ \A x \in Inserted : is_within(get_point(nodes, x), call.region))
    => \A x \in Inserted : Count(call.results, x) = 1

(***************************************************************************)
(* C2.  Search completeness: a search from the root returns every node of  *)
(* the tree whose region overlaps the query or is within it; pruning skips *)
(* no matching node.                                                       *)
(***************************************************************************)
C2_SearchReturnsEveryMatch ==
    Searched
    => \A x \in Inserted :
           Matches(nodes, x, call.region) => x \in Range(call.results)

(***************************************************************************)
(* C3.  Search soundness: every reference a search returns has a region    *)
(* that is within the query or overlaps it.  So a query that no inserted   *)
(* region matches returns the empty list, and no node of a subtree whose   *)
(* regions all miss the query is returned.                                 *)
(***************************************************************************)
C3_ResultsMatchQuery ==
    Searched
    => /\ \A i \in 1..Len(call.results) :
              /\ call.results[i] \in Inserted
              /\ Matches(nodes, call.results[i], call.region)
       /\ (\A x \in Inserted : ~Matches(nodes, x, call.region))
              => call.results = <<>>
       /\ \A a \in Inserted :
              (\A x \in Subtree(nodes, a) : ~Matches(nodes, x, call.region))
                  => Range(call.results) \cap Subtree(nodes, a) = {}

\* a search that returned something and left out a whole two-node subtree
C3_Witness ==
    /\ Searched
    /\ call.results # <<>>
    /\ \E a \in Inserted :
           /\ Children(nodes, a) # {}
           /\ \A x \in Subtree(nodes, a) : ~Matches(nodes, x, call.region)

(***************************************************************************)
(* C4.  The demo: with Store, House, Park, School inserted in that order   *)
(* (Store the root), the downtown query (0,0,6,6) returns House and        *)
(* neither Park nor School, and the eastside query (7,0,12,5) returns Park *)
(* and neither House nor School.                                           *)
(***************************************************************************)
InsertedRegions == [i \in 1..Len(inserted) |-> get_point(nodes, inserted[i])]

DemoBuilt == InsertedRegions = <<Store, House, Park, School>>

ResultRegions == {get_point(nodes, call.results[i]) : i \in 1..Len(call.results)}

C4_DemoQueries ==
    (Searched /\ DemoBuilt)
    => /\ call.region = downtown_query
              => House \in ResultRegions /\ Park \notin ResultRegions
                                         /\ School \notin ResultRegions
       /\ call.region = eastside_query
              => Park \in ResultRegions /\ House \notin ResultRegions
                                        /\ School \notin ResultRegions

\* the downtown search on the demo tree, which visits School and Park
C4_Witness ==
    /\ Searched
    /\ DemoBuilt
    /\ call.region = downtown_query
    /\ ResultRegions = {Store, House}

(***************************************************************************)
(* C5.  Insertion ordering: for every node a at depth d of the tree and    *)
(* every node x below it, x is in the left subtree of a iff x's coordinate *)
(* on dimension d mod 4 is strictly less than a's, and in the right        *)
(* subtree iff it is greater or equal.  So walking from the root with the  *)
(* insertion comparator reaches every inserted node.                       *)
(***************************************************************************)
Coord(ns, x, d) == get_dimension(get_point(ns, x), d % dimensions(get_point(ns, x)))

RECURSIVE Ordered(_, _, _)
Ordered(ns, a, d) ==
    \/ a = None
    \/ LET L == Subtree(ns, get_left(ns, a))
           R == Subtree(ns, get_right(ns, a))
       IN  /\ \A x \in L \cup R :
                  /\ x \in L <=> Coord(ns, x, d) < Coord(ns, a, d)
                  /\ x \in R <=> Coord(ns, x, d) >= Coord(ns, a, d)
           /\ Ordered(ns, get_left(ns, a), d + 1)
           /\ Ordered(ns, get_right(ns, a), d + 1)

\* the walk from cur at depth d that compares x as insertion did reaches x
RECURSIVE WalkReaches(_, _, _, _)
WalkReaches(ns, cur, x, d) ==
    /\ cur # None
    /\ \/ cur = x
       \/ /\ Coord(ns, x, d) < Coord(ns, cur, d)
          /\ WalkReaches(ns, get_left(ns, cur), x, d + 1)
       \/ /\ Coord(ns, x, d) >= Coord(ns, cur, d)
          /\ WalkReaches(ns, get_right(ns, cur), x, d + 1)

C6_PointAndDataRoundTrip ==
    [][/\ call'.op = "allocate"
              => /\ get_point(nodes', call'.ret) = call'.region
                 /\ get_data(nodes', call'.ret) = call'.data
       /\ \A r \in Refs :
              /\ get_point(nodes', r) = get_point(nodes, r)
              /\ get_data(nodes', r) = get_data(nodes, r)]_vars

\* a search made on an arena whose two different nodes have been linked
C6_Witness ==
    /\ Searched
    /\ len(nodes) >= 2
    /\ get_point(nodes, 0) # get_point(nodes, 1)
    /\ \E r \in Refs : get_left(nodes, r) # None
    /\ \E r \in Refs : get_right(nodes, r) # None

C8_InsertIntoEmptyTree ==
    [][(call'.op = "insert_node" /\ call'.root = None)
       => /\ call'.ret = call'.node
          /\ status' = "running"
          /\ nodes' = nodes]_vars

\* an insertion with no root of a node that already has a child
C8_Witness ==
    /\ call.op = "insert_node"
    /\ call.root = None
    /\ call.ret = call.node
    /\ Children(nodes, call.node) # {}

(***************************************************************************)
(* C9.  spatial_search with no root returns the empty list, for every      *)
(* query and depth and whatever the arena holds.                           *)
(***************************************************************************)
C9_SearchWithoutRoot ==
    (call.op = "spatial_search" /\ call.root = None)
    => /\ status = "running"
       /\ call.results = <<>>

\* a search with no root on an arena that holds nodes matching the query
C9_Witness ==
    /\ call.op = "spatial_search"
    /\ call.root = None
    /\ len(nodes) >= 2
    /\ \E r \in Refs : Matches(nodes, r, call.region)

(***************************************************************************)
(* C10.  allocate returns the arena length before the call, grows the      *)
(* arena by exactly one node holding the given region and payload and no   *)
(* children, and leaves every earlier node unchanged.  The arena starts    *)
(* empty, is not empty after an allocate, and no other call changes        *)
(* is_empty.                                                               *)
(***************************************************************************)
C10_Allocate ==
    /\ is_empty(nodes)
    /\ [][/\ call'.op = "allocate"
                 => /\ call'.ret = len(nodes)
                    /\ len(nodes') = len(nodes) + 1
                    /\ get(nodes', call'.ret) =
                           [point |-> call'.region, data |-> call'.data,
                            left |-> None, right |-> None]
                    /\ \A r \in Refs : get(nodes', r) = get(nodes, r)
                    /\ ~is_empty(nodes')
          /\ call'.op # "allocate"
                 => /\ is_empty(nodes') = is_empty(nodes)
                    /\ len(nodes') = len(nodes)]_vars

\* the second allocate, made after the first node was linked
C10_Witness ==
    /\ call.op = "allocate"
    /\ call.ret = 1
    /\ len(nodes) = 2
    /\ Children(nodes, 0) # {}

(***************************************************************************)
(* C11.  Stable references: the references allocate has returned are       *)
(* pairwise distinct and every one of them is below len() in every later   *)
(* state; no call makes len() smaller, and no call moves a node to another *)
(* index or puts another node at an index already handed out.              *)
(***************************************************************************)
C11_StableReferences ==
    /\ [](/\ \A i, j \in 1..Len(allocated) :
                 i # j => allocated[i] # allocated[j]
          /\ \A i \in 1..Len(allocated) : valid_index(nodes, allocated[i]))
    /\ [][/\ len(nodes') >= len(nodes)
          /\ \A i \in 1..Len(allocated) :
                 /\ get_point(nodes', allocated[i]) = get_point(nodes, allocated[i])
                 /\ get_data(nodes', allocated[i]) = get_data(nodes, allocated[i])]_vars

\* two references handed out, then the second node inserted under the first
C11_Witness ==
    /\ allocated = <<0, 1>>
    /\ call.op = "insert_node"
    /\ call.root = 0
    /\ call.node = 1
    /\ status = "running"
    /\ get_left(nodes, 0) = 1

(***************************************************************************)
(* C12.  link_left(p, c) makes get_left(p) = Some(c) whatever the left     *)
(* child of p was before (the last write wins) and changes nothing else:   *)
(* not p's right child, region or payload, not any other node, not the     *)
(* arena length.  link_right(p, c) does the same for the right child.      *)
(***************************************************************************)
C12_LinkSetsOneChild ==
    [][/\ call'.op = "link_left"
              => /\ get_left(nodes', call'.node) = call'.child
                 /\ get_right(nodes', call'.node) = get_right(nodes, call'.node)
       /\ call'.op = "link_right"
              => /\ get_right(nodes', call'.node) = call'.child
                 /\ get_left(nodes', call'.node) = get_left(nodes, call'.node)
       /\ call'.op \in {"link_left", "link_right"}
              => /\ get_point(nodes', call'.node) = get_point(nodes, call'.node)
                 /\ get_data(nodes', call'.node) = get_data(nodes, call'.node)
                 /\ len(nodes') = len(nodes)
                 /\ \A r \in Refs \ {call'.node} :
                        get(nodes', r) = get(nodes, r)
                 /\ status' = "running"]_vars

\* node 0 linked as its own right child while its left child is node 1 and
\* node 1 has a right child
C12_Witness ==
    /\ call.op = "link_right"
    /\ call.node = 0
    /\ call.child = 0
    /\ get_right(nodes, 0) = 0
    /\ get_left(nodes, 0) = 1
    /\ get_right(nodes, 1) = 0

(***************************************************************************)
(* C13.  get_dimension(d) of a box returns xmin, ymin, xmax, ymax for      *)
(* d = 0, 1, 2, 3; dimensions() returns 4; with an index d >= 4 both       *)
(* get_dimension and with_dimension panic.                                 *)
(***************************************************************************)
C13_DimensionAccess ==
    /\ call.op = "get_dimension"
           => /\ call.dim = 0 => call.ret = call.region.xmin /\ status = "running"
              /\ call.dim = 1 => call.ret = call.region.ymin /\ status = "running"
              /\ call.dim = 2 => call.ret = call.region.xmax /\ status = "running"
              /\ call.dim = 3 => call.ret = call.region.ymax /\ status = "running"
              /\ call.dim >= 4 => status = "panicked"
    /\ call.op = "dimensions" => call.ret = 4 /\ status = "running"
    /\ (call.op = "with_dimension" /\ call.dim >= 4) => status = "panicked"

\* get_dimension(5) of a box whose four coordinates are not all equal
C13_Witness ==
    /\ call.op = "get_dimension"
    /\ call.dim = 5
    /\ call.region = BoundingBox(0, 1, 2, 0)

Acyclic(ns) ==
    \A r \in 0..(len(ns) - 1) : r \notin Closure(ns, Children(ns, r))

WellFormed(b) == b.xmin <= b.xmax /\ b.ymin <= b.ymax

Larger(x, y) == IF x >= y THEN x ELSE y

Smaller(x, y) == IF x <= y THEN x ELSE y

\* well-formed boxes whose common points are all on a border of a
Touching(a, q) ==
    /\ WellFormed(a) /\ WellFormed(q)
    /\ Larger(a.xmin, q.xmin) <= Smaller(a.xmax, q.xmax)
    /\ Larger(a.ymin, q.ymin) <= Smaller(a.ymax, q.ymax)
    /\ \/ Larger(a.xmin, q.xmin) = Smaller(a.xmax, q.xmax)
       \/ Larger(a.ymin, q.ymin) = Smaller(a.ymax, q.ymax)

C15_WithinAndOverlaps ==
    LET a == call.region
        q == call.other
    IN  /\ call.op = "is_within"
               => (call.holds <=> /\ a.xmin >= q.xmin
                                  /\ a.xmax <= q.xmax
                                  /\ a.ymin >= q.ymin
                                  /\ a.ymax <= q.ymax)
        /\ call.op = "overlaps"
               => /\ call.holds <=> /\ ~(a.xmax < q.xmin)
                                    /\ ~(a.xmin > q.xmax)
                                    /\ ~(a.ymax < q.ymin)
                                    /\ ~(a.ymin > q.ymax)
                  /\ Touching(a, q) => call.holds

\* two unit squares that share one edge and are found to overlap
C15_Witness ==
    /\ call.op = "overlaps"
    /\ call.region = BoundingBox(0, 0, 1, 1)
    /\ call.other = BoundingBox(1, 0, 2, 1)
    /\ call.holds

(***************************************************************************)
(* C16.  insert_node(Some(root), x, 0) descends from the root comparing    *)
(* x's coordinate d mod 4 with that of the current node at depth d:        *)
(* strictly less goes left, greater or equal (ties included) goes right,   *)
(* and x is linked into the first empty child slot met on that path.  In   *)
(* particular x becomes a right descendant of every node on the path whose *)
(* compared coordinate equals x's.                                         *)
(***************************************************************************)
\* the nodes met by the descent for x that starts at cur at depth d, down
\* to the node with the empty slot; the i-th of them is at depth d + i - 1
RECURSIVE DescentPath(_, _, _, _)
DescentPath(ns, cur, x, d) ==
    LET next == IF Coord(ns, x, d) < Coord(ns, cur, d)
                THEN get_left(ns, cur)
                ELSE get_right(ns, cur)
    IN  IF next = None
        THEN <<cur>>
        ELSE <<cur>> \o DescentPath(ns, next, x, d + 1)

C16_InsertDescent ==
    [][(call'.op = "insert_node" /\ call'.root # None)
       => LET x == call'.node
              path == DescentPath(nodes, call'.root, x, 0)
              last == path[Len(path)]
          IN  /\ status' = "running"
              /\ path[1] = call'.root
              /\ IF Coord(nodes, x, Len(path) - 1) < Coord(nodes, last, Len(path) - 1)
                 THEN get_left(nodes, last) = None /\ get_left(nodes', last) = x
                 ELSE get_right(nodes, last) = None /\ get_right(nodes', last) = x
              /\ \A i \in 1..Len(path) :
                     LET a == path[i]
                     IN  /\ Coord(nodes, x, i - 1) < Coord(nodes, a, i - 1)
                                => x \in Subtree(nodes', get_left(nodes', a))
                         /\ Coord(nodes, x, i - 1) > Coord(nodes, a, i - 1)
                                => x \in Subtree(nodes', get_right(nodes', a))
                         /\ Coord(nodes, x, i - 1) = Coord(nodes, a, i - 1)
                                => x \in Subtree(nodes', get_right(nodes', a))]_vars

\* an insertion that went left at the root and was then linked as the
\* right child of a node it ties with on dimension 1
C16_Witness ==
    /\ call.op = "insert_node"
    /\ call.root # None
    /\ status = "running"
    /\ LET a == get_left(nodes, call.root)
       IN  /\ a # None
           /\ get_right(nodes, a) = call.node
           /\ Coord(nodes, call.node, 1) = Coord(nodes, a, 1)

(***************************************************************************)
(* C17.  insert_node(Some(root), x, 0) with a fresh node x changes exactly *)
(* one child slot of the arena, and that slot goes from None to Some(x):   *)
(* no existing link is overwritten, no region or payload changes, the      *)
(* arena length is unchanged, and the parent and the depth of every node   *)
(* inserted before stay the same (no rebalancing).                         *)
(***************************************************************************)
Slots(ns) == (0..(len(ns) - 1)) \X {"left", "right"}

SlotValue(ns, s) ==
    IF s[2] = "left" THEN get_left(ns, s[1]) ELSE get_right(ns, s[1])

\* the slots that refer to y
ParentSlots(ns, y) == {s \in Slots(ns) : SlotValue(ns, s) = y}

\* the depth of y below the nodes of level, which are at depth d; None when
\* y is not below them
RECURSIVE DepthFrom(_, _, _, _)
DepthFrom(ns, level, y, d) ==
    IF y \in level THEN d
    ELSE IF level = {} THEN None
    ELSE DepthFrom(ns, UNION {Children(ns, r) : r \in level}, y, d + 1)

C17_InsertFrame ==
    [][(call'.op = "insert_node" /\ call'.root # None)
       => LET x == call'.node
              changed == {s \in Slots(nodes) :
                              SlotValue(nodes', s) # SlotValue(nodes, s)}
          IN  /\ Cardinality(changed) = 1
              /\ \A s \in changed :
                     SlotValue(nodes, s) = None /\ SlotValue(nodes', s) = x
              /\ len(nodes') = len(nodes)
              /\ \A r \in Refs :
                     /\ get_point(nodes', r) = get_point(nodes, r)
                     /\ get_data(nodes', r) = get_data(nodes, r)
              /\ \A y \in Inserted :
                     /\ ParentSlots(nodes', y) = ParentSlots(nodes, y)
                     /\ DepthFrom(nodes', {call'.root}, y, 0) =
                            DepthFrom(nodes, {call'.root}, y, 0)]_vars

\* the fourth insertion, into a tree whose root has both children
C17_Witness ==
    /\ call.op = "insert_node"
    /\ call.node = 3
    /\ Len(inserted) = 4
    /\ get_left(nodes, root) # None
    /\ get_right(nodes, root) # None
    /\ DepthFrom(nodes, {root}, 3, 0) = 2

(***************************************************************************)
(* C18.  The nodes spatial_search visits are exactly: the root; the left   *)
(* child of a visited node n at depth d iff it exists and                  *)
(* Q[dim] <= n.region[dim]; the right child iff it exists and              *)
(* QH >= n.region[dim], where dim = d mod 4, QH = Q[dim + 2] when dim is   *)
(* 0 or 1 and QH = Q[dim] when dim is 2 or 3.  A visited node is in the    *)
(* result iff it is within Q or overlaps Q.                                *)
(***************************************************************************)
\* coordinate i of the box b, in the order xmin, ymin, xmax, ymax
At(b, i) == <<b.xmin, b.ymin, b.xmax, b.ymax>>[i + 1]

\* the nodes the rule visits from n, which is at depth d
RECURSIVE RuleVisits(_, _, _, _)
RuleVisits(ns, n, Q, d) ==
    LET dim == d % 4
        split == At(get_point(ns, n), dim)
        QH == IF dim \in {0, 1} THEN At(Q, dim + 2) ELSE At(Q, dim)
        L == get_left(ns, n)
        R == get_right(ns, n)
    IN  {n}
        \cup (IF L # None /\ At(Q, dim) <= split
              THEN RuleVisits(ns, L, Q, d + 1) ELSE {})
        \cup (IF R # None /\ QH >= split
              THEN RuleVisits(ns, R, Q, d + 1) ELSE {})

C18_VisitedNodes ==
    (Searched /\ call.root # None)
    => /\ Range(call.visited) = RuleVisits(nodes, call.root, call.region, 0)
       /\ Range(call.results) \subseteq Range(call.visited)
       /\ \A n \in Range(call.visited) :
              n \in Range(call.results)
                  <=> \/ is_within(get_point(nodes, n), call.region)
                      \/ overlaps(get_point(nodes, n), call.region)

\* a search of a four-node tree that pruned a subtree and visited a node it
\* did not return
C18_Witness ==
    /\ Searched
    /\ Len(inserted) = 4
    /\ Len(call.visited) >= 2
    /\ Range(call.visited) # Inserted
    /\ Range(call.results) # Range(call.visited)
    /\ get_left(nodes, root) \in Range(call.visited)

(***************************************************************************)
(* C19.  The list spatial_search returns is in pre-order of the visited    *)
(* nodes: it is the list of visited nodes, in the order of the visits,     *)
(* with the nodes that do not match left out; a matching node comes before *)
(* every matching node of its left subtree, and every matching node of a   *)
(* node's left subtree comes before every matching node of its right       *)
(* subtree.                                                                *)
(***************************************************************************)
\* the index of the first occurrence of x in s
Pos(s, x) == CHOOSE i \in 1..Len(s) : s[i] = x /\ \A j \in 1..(i - 1) : s[j] # x

RECURSIVE Keep(_, _)
\* the elements of s that are in S, in the order of s
Keep(s, S) ==
    IF s = <<>> THEN <<>>
    ELSE IF Head(s) \in S THEN <<Head(s)>> \o Keep(Tail(s), S)
    ELSE Keep(Tail(s), S)

C19_ResultsInPreOrder ==
    Searched
    => LET res == call.results
           hit == Range(res)
       IN  /\ res = Keep(call.visited, hit)
           /\ \A a \in Inserted :
                  LET L == Subtree(nodes, get_left(nodes, a)) \cap hit
                      R == Subtree(nodes, get_right(nodes, a)) \cap hit
                  IN  /\ a \in hit => \A x \in L : Pos(res, a) < Pos(res, x)
                      /\ \A x \in L : \A y \in R : Pos(res, x) < Pos(res, y)

\* a search that returned the root, a node of its left subtree and a node
\* of its right subtree
C19_Witness ==
    /\ Searched
    /\ root # None
    /\ root \in Range(call.results)
    /\ Subtree(nodes, get_left(nodes, root)) \cap Range(call.results) # {}
    /\ Subtree(nodes, get_right(nodes, root)) \cap Range(call.results) # {}

(***************************************************************************)
(* C20.  The generic search matches the bbox.rs reference: when the same   *)
(* (box, payload) pairs are given, in the same order, to                   *)
(* BoundingBoxKDTree::insert and to allocate + insert_node from depth 0,   *)
(* query_within(Q) returns the same payload list, in the same order, as    *)
(* spatial_search(root, Q, 0) mapped through get_data.                     *)
(***************************************************************************)
\* the reference tree after the first n insertions of the history
RECURSIVE ReferenceTree(_)
ReferenceTree(n) ==
    IF n = 0
    THEN bbox_new
    ELSE bbox_insert(ReferenceTree(n - 1), get_point(nodes, inserted[n]),
                     get_data(nodes, inserted[n]))

ResultPayloads == [i \in 1..Len(call.results) |-> get_data(nodes, call.results[i])]

C20_MatchesReference ==
    Searched
    => bbox_query_within(ReferenceTree(Len(inserted)), call.region) = ResultPayloads

\* a search of a four-node tree for which the reference returns three page
\* ids or more and leaves one out
C20_Witness ==
    /\ Searched
    /\ Len(inserted) = 4
    /\ LET ref == bbox_query_within(ReferenceTree(4), call.region)
       IN  /\ Len(ref) = 3
           /\ ref[1] = get_data(nodes, root)

(***************************************************************************)
(* C21.  For every box a with a.xmin <= a.xmax and a.ymin <= a.ymax and    *)
(* every box q, a.is_within(q) implies a.overlaps(q); so for such a the    *)
(* inclusion test of the search (is_within or overlaps) gives the same     *)
(* boolean as overlaps alone.                                              *)
(***************************************************************************)
C21_WithinImpliesOverlaps ==
    LET a == call.region
        q == call.other
    IN  /\ (call.op = "is_within" /\ WellFormed(a) /\ call.holds)
               => overlaps(a, q)
        /\ (call.op = "overlaps" /\ WellFormed(a) /\ ~call.holds)
               => ~is_within(a, q)
        /\ (call.op = "should_include" /\ WellFormed(a))
               => (call.holds <=> overlaps(a, q))

\* a well-formed box strictly inside the query on x and with the query's
\* span on y, found to be within it
C21_Witness ==
    /\ call.op = "is_within"
    /\ call.region = BoundingBox(1, 0, 1, 2)
    /\ call.other = BoundingBox(0, 0, 2, 2)
    /\ call.holds

(***************************************************************************)
(* C22.  Inserting n nodes whose regions are non-decreasing in every       *)
(* dimension along the insertion order (n identical boxes, for example)    *)
(* gives a linear tree: node k is the right child of node k - 1, no node   *)
(* has a left child, and the height is n - 1.                              *)
(***************************************************************************)
NonDecreasing ==
    \A i \in 1..(Len(inserted) - 1) : \A d \in 0..3 :
        At(get_point(nodes, inserted[i]), d) <= At(get_point(nodes, inserted[i + 1]), d)

C22_LinearTree ==
    NonDecreasing
    => LET n == Len(inserted)
       IN  /\ \A k \in 1..n :
                  /\ get_left(nodes, inserted[k]) = None
                  /\ get_right(nodes, inserted[k]) =
                         IF k < n THEN inserted[k + 1] ELSE None
           /\ n >= 1 => /\ root = inserted[1]
                        /\ DepthFrom(nodes, {root}, inserted[n], 0) = n - 1

\* four insertions in non-decreasing order, two of them of the same box
C22_Witness ==
    /\ call.op = "insert_node"
    /\ Len(inserted) = 4
    /\ NonDecreasing
    /\ get_point(nodes, 0) = get_point(nodes, 1)
    /\ get_point(nodes, 2) # get_point(nodes, 3)
    /\ DepthFrom(nodes, {root}, 3, 0) = 3

C24_LinksFormBinaryTree ==
    /\ Acyclic(nodes)
    /\ \A x \in Inserted \ {root} : Cardinality(ParentSlots(nodes, x)) = 1
    /\ root # None => ParentSlots(nodes, root) = {}
    /\ \A r \in Refs : get_left(nodes, r) = None
                          \/ get_left(nodes, r) # get_right(nodes, r)
    /\ \A x \in Refs \ Inserted :
           ParentSlots(nodes, x) = {} /\ Children(nodes, x) = {}

\* three nodes inserted, the root with both children, a fourth node
\* allocated and not inserted
C24_Witness ==
    /\ Len(inserted) = 3
    /\ len(nodes) = 4
    /\ get_left(nodes, root) # None
    /\ get_right(nodes, root) # None
    /\ call.op = "insert_node"

(***************************************************************************)
(* C25.  After k insert_node calls with k distinct fresh nodes, the first  *)
(* with no root and the others with the returned root, the nodes reachable *)
(* from the root through left / right references are exactly the k         *)
(* inserted nodes: no inserted node is lost or unlinked, and no node that  *)
(* is allocated and not inserted becomes reachable.                        *)
(***************************************************************************)
C25_ReachableIsInserted ==
    /\ Cardinality(Inserted) = Len(inserted)
    /\ root = None <=> inserted = <<>>
    /\ Subtree(nodes, root) = Inserted

\* four insertions that left the root without a right child, so that the
\* other three nodes are all below its left child
C25_Witness ==
    /\ call.op = "insert_node"
    /\ Len(inserted) = 4
    /\ get_right(nodes, root) = None
    /\ Subtree(nodes, get_left(nodes, root)) = {1, 2, 3}

(***************************************************************************)
(* C26, as stated.  insert_node makes no membership check: every call      *)
(* insert_node(Some(root), x, 0) with a node x that is already reachable   *)
(* from root (x = root included) links x below itself, so that x becomes   *)
(* its own descendant and the links contain a cycle.                       *)
(***************************************************************************)
OwnDescendant(ns, x) == x \in Closure(ns, Children(ns, x))

C26_ReinsertLinksBelowItself ==
    [][(/\ call'.op = "insert_node"
        /\ call'.root # None
        /\ call'.node \in Subtree(nodes, call'.root))
       => /\ status' = "running"
          /\ nodes' # nodes
          /\ OwnDescendant(nodes', call'.node)
          /\ ~Acyclic(nodes')]_vars

(***************************************************************************)
(* C26, amended.  insert_node makes no membership check: on a tree built   *)
(* by inserting each node once from depth 0, the call                      *)
(* insert_node(Some(root), x, 0) with a node x of the tree (x = root       *)
(* included) returns the root and writes one link, which puts x below      *)
(* itself: x becomes its own descendant and the links contain a cycle.     *)
(***************************************************************************)
C26_FirstReinsertMakesCycle ==
    [][(/\ call'.op = "insert_node"
        /\ call'.root # None
        /\ Reinserts = 0
        /\ call'.node \in Inserted)
       => /\ call'.node \in Subtree(nodes, call'.root)
          /\ Acyclic(nodes)
          /\ status' = "running"
          /\ call'.ret = call'.root
          /\ Cardinality({s \in Slots(nodes) :
                              SlotValue(nodes', s) # SlotValue(nodes, s)}) = 1
          /\ OwnDescendant(nodes', call'.node)
          /\ ~Acyclic(nodes')]_vars

\* the node that was inserted again is not the root, is reached through
\* its own right child and is the only insertion made twice
C26_Witness ==
    /\ call.op = "insert_node"
    /\ status = "running"
    /\ Reinserts = 1
    /\ Len(inserted) = 4
    /\ call.node # root
    /\ call.node \in Inserted
    /\ get_right(nodes, call.node) # None
    /\ get_right(nodes, call.node) # call.node
    /\ OwnDescendant(nodes, call.node)

(***************************************************************************)
(* C27.  On a tree built by inserting each allocated node at most once,    *)
(* insert_node and spatial_search terminate: an insert_node with a root    *)
(* writes exactly one link, after at most height + 1 comparisons, and a    *)
(* spatial_search visits each node at most once, so that its result holds  *)
(* no reference twice.                                                     *)
(***************************************************************************)
\* the height of the subtree of the optional reference r; -1 when empty
RECURSIVE Height(_, _)
Height(ns, r) ==
    IF r = None THEN -1
    ELSE 1 + Larger(Height(ns, get_left(ns, r)), Height(ns, get_right(ns, r)))

NoDuplicates(s) == Cardinality(Range(s)) = Len(s)

C27_Termination ==
    /\ [](/\ status = "running"
          /\ call.op = "spatial_search"
                 => /\ NoDuplicates(call.visited)
                    /\ NoDuplicates(call.results))
    /\ [][(call'.op = "insert_node" /\ call'.root # None)
          => /\ Cardinality({s \in Slots(nodes) :
                                 SlotValue(nodes', s) # SlotValue(nodes, s)}) = 1
             /\ call'.steps >= 1
             /\ call'.steps <= Height(nodes, call'.root) + 1]_vars

\* an insertion that made height + 1 = 3 comparisons
C27_Witness ==
    /\ call.op = "insert_node"
    /\ status = "running"
    /\ call.steps = 3
    /\ Height(nodes, root) = 3

(***************************************************************************)
(* arena.rs: the arena of the block KD-tree.  The arena is the sequence ns *)
(* of nodes; NodeId id is the node ns[id + 1].                             *)
(***************************************************************************)
\* Node::Leaf(points)
Leaf(points) ==
    [kind |-> "Leaf", points |-> points, axis |-> 0, split_value |-> 0,
     left |-> None, right |-> None]

\* Node::Internal { axis, split_value, left, right }
Internal(axis, split_value, left, right) ==
    [kind |-> "Internal", points |-> <<>>, axis |-> axis,
     split_value |-> split_value, left |-> left, right |-> right]

\* Arena::alloc: the id is the length before the push
Arena_alloc(ns, node) == [nodes |-> Append(ns, node), id |-> Len(ns)]

\* Arena::get / Arena::get_mut
Arena_get(ns, id) == ns[id + 1]

(***************************************************************************)
(* tree.rs: the block KD-tree.                                             *)
(***************************************************************************)
BLOCK_SIZE == 4

\* Point { x, y }
Point(x, y) == [x |-> x, y |-> y]

\* key: the coordinate of p on the axis
key(p, axis) == IF axis = 0 THEN p.x ELSE p.y

\* points.sort_by(..) panics: some comparison meets a NaN key and unwraps None
sort_by_panics(points, axis) ==
    \E i, j \in 1..Len(points) :
        i # j /\ partial_cmp_is_none(key(points[i], axis), key(points[j], axis))

\* points.sort_by(..): the stable sort by key
RECURSIVE sort_by(_, _)
sort_by(points, axis) ==
    IF points = <<>> THEN <<>>
    ELSE LET n == Len(points)
             p == points[n]
             rest == sort_by(SubSeq(points, 1, n - 1), axis)
             k == Cardinality({i \in 1..Len(rest) :
                                   f64_le(key(rest[i], axis), key(p, axis))})
         IN  SubSeq(rest, 1, k) \o <<p>> \o SubSeq(rest, k + 1, Len(rest))

\* the predicate of points.drain(..).partition(..)
partition_left(p, axis, split_value) ==
    IF axis = 0 THEN f64_lt(p.x, split_value) ELSE f64_lt(p.y, split_value)

\* variant: a point is routed left when it is at or below split_value
target_id_with_ties(node, point) ==
    IF \/ (node.axis = 0 /\ f64_le(point.x, node.split_value))
       \/ (node.axis = 1 /\ f64_le(point.y, node.split_value))
    THEN node.left
    ELSE node.right

\* the child an Internal node hands the point to
target_id(node, point) ==
    IF \/ (node.axis = 0 /\ f64_lt(point.x, node.split_value))
       \/ (node.axis = 1 /\ f64_lt(point.y, node.split_value))
    THEN node.left
    ELSE node.right

\* the Leaf arm once the leaf holds more than BLOCK_SIZE points
split_leaf(ns, id, points, depth) ==
    LET axis == depth % 2
    IN  IF sort_by_panics(points, axis)
        THEN [nodes |-> ns, panicked |-> TRUE]
        ELSE LET sorted == sort_by(points, axis)
                 median == Len(sorted) \div 2
                 split_value == key(sorted[median + 1], axis)
                 goes_to_left(p) == partition_left(p, axis, split_value)
                 goes_to_right(p) == ~partition_left(p, axis, split_value)
                 left_points == SelectSeq(sorted, goes_to_left)
                 right_points == SelectSeq(sorted, goes_to_right)
                 l == Arena_alloc(ns, Leaf(left_points))
                 r == Arena_alloc(l.nodes, Leaf(right_points))
             IN  [nodes |-> [r.nodes EXCEPT
                                 ![id + 1] = Internal(axis, split_value, l.id, r.id)],
                  panicked |-> FALSE]

\* KDTree::insert_rec
RECURSIVE insert_rec(_, _, _, _)
insert_rec(ns, id, point, depth) ==
    LET node == Arena_get(ns, id)
    IN  IF node.kind = "Leaf"
        THEN LET points == Append(node.points, point)
                 pushed == [ns EXCEPT ![id + 1] = Leaf(points)]
             IN  IF Len(points) > BLOCK_SIZE
                 THEN split_leaf(pushed, id, points, depth)
                 ELSE [nodes |-> pushed, panicked |-> FALSE]
        ELSE insert_rec(ns, target_id(node, point), point, depth + 1)

\* KDTree::insert
KDTree_insert(ns, root_opt, point) ==
    IF root_opt = None
    THEN LET a == Arena_alloc(ns, Leaf(<<point>>))
         IN  [nodes |-> a.nodes, root |-> a.id, panicked |-> FALSE]
    ELSE LET res == insert_rec(ns, root_opt, point, 0)
         IN  [nodes |-> res.nodes, root |-> root_opt, panicked |-> res.panicked]

(***************************************************************************)
(* The block KD-tree specification: a KDTree::new() tree receives up to    *)
(* MaxBlockPoints KDTree::insert calls with points whose coordinates are   *)
(* finite (0..MaxBlockCoord) or NaN.  nodes is the tree's arena, root its  *)
(* root, inserted the points handed to insert so far, allocated the ids    *)
(* Arena::alloc has returned.  A call that panics (the unwrap in the sort) *)
(* ends the run; the order in which the interrupted sort leaves the        *)
(* leaf's vector is not modelled.                                          *)
(***************************************************************************)
BlockCoords == (0..MaxBlockCoord) \cup {NAN}

BlockPoints == {Point(x, y) : x \in BlockCoords, y \in BlockCoords}

RECURSIVE IdsFrom(_, _)
IdsFrom(first, count) ==
    IF count = 0 THEN <<>> ELSE <<first>> \o IdsFrom(first + 1, count - 1)

\* KDTree::new()
InitBlock ==
    /\ nodes = <<>>
    /\ root = None
    /\ inserted = <<>>
    /\ allocated = <<>>
    /\ call = NoCall
    /\ status = "running"

\* tree.insert(point)
KDTreeInsert(point) ==
    /\ status = "running"
    /\ Len(inserted) < MaxBlockPoints
    /\ LET res == KDTree_insert(nodes, root, point)
       IN  /\ nodes' = res.nodes
           /\ root' = res.root
           /\ allocated' = allocated \o IdsFrom(Len(nodes), Len(res.nodes) - Len(nodes))
           /\ status' = IF res.panicked THEN "panicked" ELSE "running"
    /\ inserted' = Append(inserted, point)
    /\ call' = [NoCall EXCEPT !.op = "KDTree::insert", !.root = root,
                              !.region = point]

NextBlock == \E point \in BlockPoints : KDTreeInsert(point)

SpecBlock == InitBlock /\ [][NextBlock]_vars

(***************************************************************************)
(* Vocabulary of the block KD-tree claims.                                 *)
(***************************************************************************)
\* the ids of the nodes of the subtree of id
RECURSIVE BlockSubtree(_, _)
BlockSubtree(ns, id) ==
    IF id = None THEN {}
    ELSE LET node == Arena_get(ns, id)
         IN  IF node.kind = "Leaf" THEN {id}
             ELSE {id} \cup BlockSubtree(ns, node.left) \cup BlockSubtree(ns, node.right)

\* the points stored in the leaves of the subtree of id, leaf after leaf
RECURSIVE BlockPointsOf(_, _)
BlockPointsOf(ns, id) ==
    IF id = None THEN <<>>
    ELSE LET node == Arena_get(ns, id)
         IN  IF node.kind = "Leaf" THEN node.points
             ELSE BlockPointsOf(ns, node.left) \o BlockPointsOf(ns, node.right)

LeafIds(ns, id) == {i \in BlockSubtree(ns, id) : Arena_get(ns, i).kind = "Leaf"}

InternalIds(ns, id) == {i \in BlockSubtree(ns, id) : Arena_get(ns, i).kind = "Internal"}

\* how many times p occurs in the sequence s
Occurrences(s, p) == Cardinality({i \in 1..Len(s) : s[i] = p})

(***************************************************************************)
(* C28: in the block KD-tree, after every KDTree::insert that returns,     *)
(* every Leaf holds at most BLOCK_SIZE points, whatever points were        *)
(* inserted, points with equal coordinates on the split axis included.     *)
(* The code does not keep this: a split whose median key is the smallest   *)
(* key of the leaf sends every point to the right leaf.                    *)
(***************************************************************************)
C28_LeavesWithinBlockSize ==
    status = "running" =>
        \A id \in LeafIds(nodes, root) :
            Len(Arena_get(nodes, id).points) <= BLOCK_SIZE

\* the leaves hold the inserted points, each as often as it was inserted
EveryPointInOneLeaf ==
    \A p \in BlockPoints :
        Occurrences(BlockPointsOf(nodes, root), p) = Occurrences(inserted, p)

\* the points of every left subtree are strictly below split_value
LeftBelowSplit ==
    \A id \in InternalIds(nodes, root) :
        LET node == Arena_get(nodes, id)
            left_points == BlockPointsOf(nodes, node.left)
        IN  \A i \in 1..Len(left_points) :
                f64_lt(key(left_points[i], node.axis), node.split_value)

(***************************************************************************)
(* C29: after any sequence of KDTree::insert calls every inserted point is *)
(* stored in exactly one Leaf (the leaves hold the inserted points, each   *)
(* as often as it was inserted), and for every Internal node each point of *)
(* its left subtree is strictly below split_value on the node's axis and   *)
(* each point of its right subtree is greater than or equal to it.  As     *)
(* stated this fails for a point whose coordinate on the axis is NaN: it   *)
(* is routed right, and NaN >= split_value is false.                       *)
(***************************************************************************)
C29_PartitionedLeaves ==
    status = "running" =>
        /\ EveryPointInOneLeaf
        /\ LeftBelowSplit
        /\ \A id \in InternalIds(nodes, root) :
               LET node == Arena_get(nodes, id)
                   right_points == BlockPointsOf(nodes, node.right)
               IN  \A i \in 1..Len(right_points) :
                       f64_ge(key(right_points[i], node.axis), node.split_value)

\* C29 as the code keeps it: the points of a right subtree are those that
\* are not strictly below split_value (the finite ones at or above it, and
\* the ones that are NaN on the axis)
C29_PartitionedByLessThan ==
    status = "running" =>
        /\ EveryPointInOneLeaf
        /\ LeftBelowSplit
        /\ \A id \in InternalIds(nodes, root) :
               LET node == Arena_get(nodes, id)
                   right_points == BlockPointsOf(nodes, node.right)
               IN  \A i \in 1..Len(right_points) :
                       LET k == key(right_points[i], node.axis)
                       IN  \/ f64_ge(k, node.split_value)
                           \/ k = NAN

\* insertions have split the root on x, with points on both sides, and a
\* leaf below it on y, and a point that is NaN on x was routed to the right
C29_Witness ==
    /\ status = "running"
    /\ \E id \in InternalIds(nodes, root) : Arena_get(nodes, id).axis = 1
    /\ Arena_get(nodes, root).kind = "Internal"
    /\ BlockPointsOf(nodes, Arena_get(nodes, root).left) # <<>>
    /\ \E p \in Range(BlockPointsOf(nodes, Arena_get(nodes, root).right)) : p.x = NAN

(***************************************************************************)
(* The union specification: BoundingBox::union applied once to two boxes   *)
(* whose coordinates are finite (0..MaxUnionCoord) or NaN, in any order    *)
(* (xmin may exceed xmax).  call.region is self, call.other the argument,  *)
(* call.box the returned box.                                              *)
(***************************************************************************)
FloatBoxes(m) ==
    LET coords == (0..m) \cup {NAN}
    IN  {BoundingBox(x0, y0, x1, y1) :
             x0 \in coords, y0 \in coords, x1 \in coords, y1 \in coords}

InitUnion ==
    /\ nodes = <<>>
    /\ root = None
    /\ inserted = <<>>
    /\ allocated = <<>>
    /\ status = "running"
    /\ \E a \in FloatBoxes(MaxUnionCoord), b \in FloatBoxes(MaxUnionCoord) :
           call = [NoCall EXCEPT !.op = "input", !.region = a, !.other = b]

\* a.union(&b)
Union ==
    /\ Applies
    /\ call' = [call EXCEPT !.op = "union", !.box = union(call.region, call.other)]
    /\ UNCHANGED <<nodes, root, inserted, allocated, status>>

NextUnion == Union

SpecUnion == InitUnion /\ [][NextUnion]_vars

\* no coordinate of b is NaN
NoNaN(b) == b.xmin # NAN /\ b.ymin # NAN /\ b.xmax # NAN /\ b.ymax # NAN

(***************************************************************************)
(* C30: for all boxes a and b, a.union(b) encloses both operands, that is  *)
(* a.is_within(a.union(b)) and b.is_within(a.union(b)), and a.union(b)     *)
(* equals b.union(a).  As stated this fails for a box with a NaN           *)
(* coordinate: min and max skip the NaN, and no comparison with it holds.  *)
(***************************************************************************)
C30_UnionEncloses ==
    call.op = "union" =>
        /\ is_within(call.region, call.box)
        /\ is_within(call.other, call.box)
        /\ BoundingBox_eq(call.box, union(call.other, call.region))

\* C30 for boxes without NaN coordinates, well-formed or not
C30_UnionEnclosesFinite ==
    (call.op = "union" /\ NoNaN(call.region) /\ NoNaN(call.other)) =>
        /\ is_within(call.region, call.box)
        /\ is_within(call.other, call.box)
        /\ BoundingBox_eq(call.box, union(call.other, call.region))

\* the union of two finite boxes neither of which encloses the other
C30_Witness ==
    /\ call.op = "union"
    /\ NoNaN(call.region)
    /\ NoNaN(call.other)
    /\ ~is_within(call.region, call.other)
    /\ ~is_within(call.other, call.region)
    /\ call.box # call.region
    /\ call.box # call.other

====
